---- MODULE Spec2Model ----
(***************************************************************************)
(* Wave function collapse on a toroidal grid (src/src/main.rs).            *)
(*                                                                         *)
(* The state is the WaveFunction struct: the terminal size, the tile set   *)
(* (basestates), the grid of candidate sets, the row counters, the entropy *)
(* buckets (groups) and the top row.  Rendering state (cursor, lastColor,  *)
(* info) has no influence on any of these and is left out.  Every public   *)
(* operation (new, collapseMaybe, resetrow) is one action; the recursion   *)
(* projectState -> projectdir -> projectState is a pair of RECURSIVE       *)
(* operators evaluated in the order of the source.                         *)
(*                                                                         *)
(* History variables: pc (where the driver is), picked and ret (what the   *)
(* last getLowestEntropy and collapseMaybe returned), trace (the updates   *)
(* of candidate sets made by the last operation), nresets, nred (number of *)
(* resetrow calls and of updates so far), reported (a step returned        *)
(* through the None branch), chosen (the coordinates getLowestEntropy has  *)
(* returned and resetrow has not reset since) and wasResolved (the grid    *)
(* was fully resolved when resetrow was last called).                      *)
(***************************************************************************)
EXTENDS Integers, FiniteSets, Sequences, TLC

VARIABLES term, basestates, top, grid, rowcount, groups,
          pc, picked, ret, trace, nresets, nred, reported,
          chosen, wasResolved

vars == <<term, basestates, top, grid, rowcount, groups,
          pc, picked, ret, trace, nresets, nred, reported,
          chosen, wasResolved>>

(***************************************************************************)
(* Bounds of the model.                                                    *)
(***************************************************************************)
MaxH == 3
MaxW == 3
MaxCells == 4
MaxResets == 1

(***************************************************************************)
(* Tiles.  A State is its projections vector: for each direction 0..3 the  *)
(* set of tile ids allowed in the neighbour in that direction              *)
(* (0 = y-1, 1 = y+1, 2 = x+1, 3 = x-1, see projectState).                 *)
(***************************************************************************)
Dirs == 0..3

StateNew(up, down, right, left) ==
    [d \in Dirs |-> CASE d = 0 -> up [] d = 1 -> down [] d = 2 -> right [] d = 3 -> left]

\* The tile set of ultima()
Ultima ==
    [id \in 0..5 |-> CASE id = 0 -> StateNew({0,1}, {0,1}, {0,1}, {0,1})
                       [] id = 1 -> StateNew({0,1,2}, {0,1,2}, {0,1,2}, {0,1,2})
                       [] id = 2 -> StateNew({1,2,3}, {1,2,3}, {1,2,3}, {1,2,3})
                       [] id = 3 -> StateNew({2,3,4}, {2,3,4}, {2,3,4}, {2,3,4})
                       [] id = 4 -> StateNew({3,4,5}, {3,4,5}, {3,4,5}, {3,4,5})
                       [] id = 5 -> StateNew({4,5}, {4,5}, {4,5}, {4,5})]

\* The tile set of moneyDungeon() (src/main.rs)
MoneyDungeon ==
    [id \in 0..4 |-> CASE id = 0 -> StateNew({0,1,2,4}, {0,1,2,4}, {0,1,3,4}, {0,1,3,4})
                       [] id = 1 -> StateNew({0,3}, {0,3}, {0,2}, {0,2})
                       [] id = 2 -> StateNew({0}, {0}, {1,2}, {1,2})
                       [] id = 3 -> StateNew({1}, {1}, {0,3}, {0,3})
                       [] id = 4 -> StateNew({0}, {0}, {0}, {0})]

\* A gradient of three tiles in the manner of ultima(): a tile allows itself
\* and the tiles next to it in the gradient.
Gradient3 ==
    [id \in 0..2 |-> CASE id = 0 -> StateNew({0,1}, {0,1}, {0,1}, {0,1})
                       [] id = 1 -> StateNew({0,1,2}, {0,1,2}, {0,1,2}, {0,1,2})
                       [] id = 2 -> StateNew({1,2}, {1,2}, {1,2}, {1,2})]

\* A tile set given by a vertical relation V (<<a, b>>: b may sit below a)
\* and a horizontal relation Hr (<<a, b>>: b may sit to the right of a).
FromRelations(ids, V, Hr) ==
    [a \in ids |-> StateNew({b \in ids : <<b, a>> \in V},
                            {b \in ids : <<a, b>> \in V},
                            {b \in ids : <<a, b>> \in Hr},
                            {b \in ids : <<b, a>> \in Hr})]

\* Every two-tile set whose tables come from a vertical and a horizontal relation.
TwoTileSets ==
    { FromRelations(0..1, V, Hr) : V \in SUBSET ((0..1) \X (0..1)),
                                    Hr \in SUBSET ((0..1) \X (0..1)) }

\* Three tiles: 0 and 1 exclude each other, 2 goes next to anything.
Joker3 ==
    FromRelations(0..2, {<<0,0>>, <<1,1>>, <<2,2>>, <<0,2>>, <<2,0>>, <<1,2>>, <<2,1>>},
                        {<<0,0>>, <<1,1>>, <<2,2>>, <<0,2>>, <<2,0>>, <<1,2>>, <<2,1>>})

\* Three tiles in a cycle: below/right of a only a+1 (mod 3).
Cycle3 ==
    FromRelations(0..2, {<<0,1>>, <<1,2>>, <<2,0>>}, {<<0,1>>, <<1,2>>, <<2,0>>})

\* Three tiles: tile 2 has no vertical partner and sits beside 0 and 1 only.
Flat3 ==
    FromRelations(0..2, {<<0,0>>, <<0,1>>, <<1,0>>, <<1,1>>},
                        {<<0,0>>, <<1,1>>, <<0,2>>, <<2,0>>, <<1,2>>, <<2,1>>})

\* Tables that are not mutual converses, after tiles 16 and 17 of maze0():
\* tile 1 allows tile 0 on its right and on its left, tile 0 allows only itself.
OneWay2 ==
    [id \in 0..1 |-> CASE id = 0 -> StateNew({0}, {0}, {0}, {0})
                       [] id = 1 -> StateNew({0}, {0}, {0}, {0})]

\* Tile 0 allows everything, tile 1 allows nothing.
Greedy2 ==
    [id \in 0..1 |-> CASE id = 0 -> StateNew({0,1}, {0,1}, {0,1}, {0,1})
                       [] id = 1 -> StateNew({}, {}, {}, {})]

\* A single tile that allows itself.
Single1 ==
    [id \in 0..0 |-> StateNew({0}, {0}, {0}, {0})]

\* Three tiles, each permitting only itself in every direction.
Same3 ==
    FromRelations(0..2, {<<0,0>>, <<1,1>>, <<2,2>>}, {<<0,0>>, <<1,1>>, <<2,2>>})

TileSets == TwoTileSets \cup {Ultima, MoneyDungeon, Gradient3, Joker3, Cycle3, Flat3, OneWay2, Greedy2, Single1, Same3}

(***************************************************************************)
(* Point, SuperState                                                       *)
(***************************************************************************)
Point(y, x) == <<y, x>>

Points(t) == (0..(t.h - 1)) \X (0..(t.w - 1))

None == <<>>
Some(p) == <<p>>

\* (variant: the projected set replaces the cell's own set)
intersect_forgetSelf(states, hss) == hss

\* SuperState::intersect
intersect(states, hss) == states \cap hss

\* SuperState::count
count(states) == Cardinality(states)

\* SuperState::collapse keeps the first element of the HashSet's iteration,
\* which is any element: the caller supplies it as i.
collapse(states, i) == {i}

(***************************************************************************)
(* WaveFunction.  The operators work on a record wf of the struct's fields *)
(* plus trace (the list of candidate-set updates made by the operation so  *)
(* far) and res (the Option<()> returned by the last call).                *)
(***************************************************************************)
numStates(bs) == Cardinality(DOMAIN bs)

\* WaveFunction::new
new(t, bs) ==
    [term      |-> t,
     basestates |-> bs,
     top       |-> 0,
     grid      |-> [p \in Points(t) |-> DOMAIN bs],
     rowcount  |-> [y \in 0..(t.h - 1) |-> 0],
     groups    |-> [k \in 0..numStates(bs) |-> IF k = numStates(bs) THEN Points(t) ELSE {}],
     trace     |-> << >>,
     res       |-> "Some"]

\* WaveFunction::projection_ss
projection_ss(bs, h, dir) == UNION { bs[id][dir] : id \in h }

\* WaveFunction::is_superpositioned
is_superpositioned(wf, p) == 2 <= count(wf.grid[p])

\* (variant: only empty cells are skipped)
skipped_emptyOnly(sscount) == sscount < 1

\* (variant: cells of cardinality 2 are skipped as well)
skipped_upto2(sscount) == sscount < 3

\* projectdir, line 227: a cell of cardinality 0 or 1 is skipped
skipped(sscount) == sscount < 2

\* projectdir, line 232: the new candidate set of cell p seen from op
narrowed(wf, p, op, dir) ==
    intersect(wf.grid[p], projection_ss(wf.basestates, wf.grid[op], dir))

\* projectdir, lines 242-243: move p from bucket sscount to bucket sscountfinal
regroup(g, p, sscount, sscountfinal) ==
    LET g1 == [g EXCEPT ![sscount] = @ \ {p}]
    IN  [g1 EXCEPT ![sscountfinal] = @ \cup {p}]

\* (variant: an emptied cell makes projectdir return None)
emptied_none(wf) == [wf EXCEPT !.res = "None"]

\* projectdir, line 245: what is returned when the cell became empty
emptied(wf) == [wf EXCEPT !.res = "Some"]

\* (variant: right and left are exchanged)
neighbour_mirrored(t, p, dir) ==
    CASE dir = 0 -> Point((p[1] + t.h - 1) % t.h, p[2])
      [] dir = 1 -> Point((p[1] + 1) % t.h, p[2])
      [] dir = 2 -> Point(p[1], (p[2] + t.w - 1) % t.w)
      [] dir = 3 -> Point(p[1], (p[2] + 1) % t.w)

\* The four neighbours visited by projectState, by direction
neighbour(t, p, dir) ==
    CASE dir = 0 -> Point((p[1] + t.h - 1) % t.h, p[2])
      [] dir = 1 -> Point((p[1] + 1) % t.h, p[2])
      [] dir = 2 -> Point(p[1], (p[2] + 1) % t.w)
      [] dir = 3 -> Point(p[1], (p[2] + t.w - 1) % t.w)

RECURSIVE projectdir(_, _, _, _)
RECURSIVE projectState(_, _)

\* WaveFunction::projectdir
projectdir(wf, p, op, dir) ==
    LET sscount == count(wf.grid[p]) IN
    IF skipped(sscount) THEN [wf EXCEPT !.res = "Some"]
    ELSE
      LET hashset2 == narrowed(wf, p, op, dir)
          sscountfinal == Cardinality(hashset2)
      IN
      IF sscount # sscountfinal
      THEN LET w1 == [wf EXCEPT
                        !.grid[p] = hashset2,
                        !.rowcount[p[1]] = IF 1 = sscountfinal THEN @ + 1 ELSE @,
                        !.groups = regroup(@, p, sscount, sscountfinal),
                        !.trace = Append(@, [cell |-> p, old |-> wf.grid[p],
                                             new |-> hashset2, op |-> op, dir |-> dir])]
           IN  IF sscountfinal = 0 THEN emptied(w1) ELSE projectState(w1, p)
      ELSE [wf EXCEPT !.res = "Some"]

\* WaveFunction::projectState; the ? operator returns early on None
projectState(wf, p) ==
    LET r0 == projectdir(wf, neighbour(wf.term, p, 0), p, 0) IN
    IF r0.res = "None" THEN r0 ELSE
    LET r1 == projectdir(r0, neighbour(wf.term, p, 1), p, 1) IN
    IF r1.res = "None" THEN r1 ELSE
    LET r2 == projectdir(r1, neighbour(wf.term, p, 2), p, 2) IN
    IF r2.res = "None" THEN r2 ELSE
    projectdir(r2, neighbour(wf.term, p, 3), p, 3)

\* (variant: the collapse itself does not count the cell as resolved)
collapseAt_noCount(wf, p, i) ==
    LET w1 == [wf EXCEPT
                 !.grid[p] = collapse(@, i),
                 !.trace = Append(@, [cell |-> p, old |-> wf.grid[p],
                                      new |-> collapse(wf.grid[p], i), op |-> p, dir |-> -1])]
    IN  projectState(w1, p)

\* WaveFunction::collapseAt, after its assertion; i is the tile kept by collapse()
collapseAt(wf, p, i) ==
    LET w1 == [wf EXCEPT
                 !.rowcount[p[1]] = @ + 1,
                 !.grid[p] = collapse(@, i),
                 !.trace = Append(@, [cell |-> p, old |-> wf.grid[p],
                                      new |-> collapse(wf.grid[p], i), op |-> p, dir |-> -1])]
    IN  projectState(w1, p)

\* (variant: the scan stops at the highest non-empty bucket)
lowestBucket_highest(g) ==
    { k \in DOMAIN g : /\ k >= 2
                       /\ g[k] # {}
                       /\ \A j \in DOMAIN g : j > k => g[j] = {} }

\* (variant: the scan skips bucket 0 only)
lowestBucket_from1(g) ==
    { k \in DOMAIN g : /\ k >= 1
                       /\ g[k] # {}
                       /\ \A j \in DOMAIN g : (j >= 1 /\ j < k) => g[j] = {} }

\* getLowestEntropy: the buckets that .skip(2).find(|h| 0 < h.len()) stops at
\* (the lowest non-empty bucket of index >= 2), as a set of at most one index
lowestBucket(g) ==
    { k \in DOMAIN g : /\ k >= 2
                       /\ g[k] # {}
                       /\ \A j \in DOMAIN g : (j >= 2 /\ j < k) => g[j] = {} }

\* (variant: p is put into bucket 1 and left in bucket k)
reserve_noTake(g, k, p) == [g EXCEPT ![1] = @ \cup {p}]

\* getLowestEntropy: p is taken out of bucket k and put into bucket 1
reserve(g, k, p) ==
    LET g1 == [g EXCEPT ![k] = @ \ {p}]
    IN  [g1 EXCEPT ![1] = @ \cup {p}]

\* (variant: the buckets are reset, the candidate sets of the row are not)
resetcells_keepGrid(wf, row) ==
    LET rowpts == { p \in Points(wf.term) : p[1] = row }
        g1 == [wf.groups EXCEPT ![1] = @ \ rowpts]
        g2 == [g1 EXCEPT ![numStates(wf.basestates)] = @ \cup rowpts]
    IN  [wf EXCEPT !.top = row, !.groups = g2, !.rowcount[row] = 0]

\* resetrow, lines 198-204: the row is reset to the full tile set
resetcells(wf, row) ==
    LET rowpts == { p \in Points(wf.term) : p[1] = row }
        g1 == [wf.groups EXCEPT ![1] = @ \ rowpts]
        g2 == [g1 EXCEPT ![numStates(wf.basestates)] = @ \cup rowpts]
    IN  [wf EXCEPT !.top = row,
                   !.groups = g2,
                   !.grid = [p \in Points(wf.term) |->
                               IF p[1] = row THEN DOMAIN wf.basestates ELSE @[p]],
                   !.rowcount[row] = 0]

\* (variant: the reset row is not projected onto from the row below)
reproject_none(wf, row, x) == wf

RECURSIVE reproject(_, _, _)
\* resetrow, lines 205-209: columns x, x+1, .. w-1 of the second for_each
reproject(wf, row, x) ==
    IF x >= wf.term.w THEN wf
    ELSE LET below == Point((row + 1) % wf.term.h, x)
         IN  reproject(projectdir(wf, Point((below[1] + wf.term.h - 1) % wf.term.h, x),
                                  below, 0),
                       row, x + 1)

RECURSIVE reproject_above(_, _, _)
\* (variant, the full torus: the row above the reset row is projected onto it too)
reproject_above(wf, row, x) ==
    IF x >= wf.term.w THEN wf
    ELSE LET above == Point((row + wf.term.h - 1) % wf.term.h, x)
         IN  reproject_above(projectdir(wf, Point(row, x), above, 1), row, x + 1)

resetrow_fullTorus(wf) ==
    LET row == (wf.top + wf.term.h - 1) % wf.term.h
    IN  reproject_above(reproject(resetcells(wf, row), row, 0), row, 0)

\* (variant: the row marked top at the call is reset, top is not moved first)
resetrow_currentTop(wf) ==
    reproject(resetcells(wf, wf.top), wf.top, 0)

\* WaveFunction::resetrow
resetrow(wf) ==
    LET row == (wf.top + wf.term.h - 1) % wf.term.h
    IN  reproject(resetcells(wf, row), row, 0)

(***************************************************************************)
(* The state machine                                                       *)
(***************************************************************************)
Sizes ==
    { t \in { [h |-> hh, w |-> ww] : hh \in 1..MaxH, ww \in 1..MaxW } :
        t.h * t.w <= MaxCells }

\* The struct as a record
Self ==
    [term |-> term, basestates |-> basestates, top |-> top, grid |-> grid,
     rowcount |-> rowcount, groups |-> groups, trace |-> << >>, res |-> "Some"]

Install(wf) ==
    /\ top' = wf.top
    /\ grid' = wf.grid
    /\ rowcount' = wf.rowcount
    /\ groups' = wf.groups
    /\ trace' = wf.trace
    /\ UNCHANGED <<term, basestates>>

Init ==
    /\ term \in Sizes
    /\ basestates \in TileSets
    /\ top = new(term, basestates).top
    /\ grid = new(term, basestates).grid
    /\ rowcount = new(term, basestates).rowcount
    /\ groups = new(term, basestates).groups
    /\ pc = "loop"
    /\ picked = None
    /\ ret = TRUE
    /\ trace = << >>
    /\ nresets = 0
    /\ nred = 0
    /\ reported = FALSE
    /\ chosen = {}
    /\ wasResolved = FALSE

\* WaveFunction::collapseMaybe, one iteration of "while wf.collapseMaybe() { }"
CollapseMaybe ==
    /\ pc = "loop"
    /\ IF lowestBucket(groups) = {}
       THEN /\ picked' = None
            /\ ret' = FALSE
            /\ pc' = "ended"
            /\ trace' = << >>
            /\ UNCHANGED <<term, basestates, top, grid, rowcount, groups,
                           nresets, nred, reported, chosen, wasResolved>>
       ELSE \E k \in lowestBucket(groups) : \E p \in groups[k] :
              LET w0 == [Self EXCEPT !.groups = reserve(@, k, p)] IN
              IF ~ is_superpositioned(w0, p)
              THEN /\ pc' = "panic"
                   /\ picked' = Some(p)
                   /\ groups' = w0.groups
                   /\ trace' = << >>
                   /\ chosen' = chosen \cup {p}
                   /\ UNCHANGED <<term, basestates, top, grid, rowcount,
                                  ret, nresets, nred, reported, wasResolved>>
              ELSE \E i \in grid[p] :
                     LET w1 == collapseAt(w0, p, i) IN
                     /\ Install(w1)
                     /\ picked' = Some(p)
                     /\ ret' = (w1.res = "Some")
                     /\ pc' = IF w1.res = "Some" THEN "loop" ELSE "ended"
                     /\ nred' = nred + Len(w1.trace)
                     /\ reported' = (reported \/ w1.res = "None")
                     /\ chosen' = chosen \cup {p}
                     /\ UNCHANGED <<nresets, wasResolved>>

\* wf.resetrow() as the drivers call it: after the loop has ended
ResetRow ==
    /\ pc = "ended"
    /\ nresets < MaxResets
    /\ LET w1 == resetrow(Self) IN
       /\ Install(w1)
       /\ nred' = nred + Len(w1.trace)
    /\ pc' = "loop"
    /\ picked' = None
    /\ nresets' = nresets + 1
    /\ chosen' = { p \in chosen : p[1] # (top + term.h - 1) % term.h }
    /\ wasResolved' = \A p \in Points(term) : count(grid[p]) = 1
    /\ UNCHANGED <<ret, reported>>

Next == CollapseMaybe \/ ResetRow

Spec == Init /\ [][Next]_vars

\* wf.resetrow() called between two collapseMaybe calls, while the loop has
\* not ended
ResetRowMid ==
    /\ pc = "loop"
    /\ nresets < MaxResets
    /\ LET w1 == resetrow(Self) IN
       /\ Install(w1)
       /\ nred' = nred + Len(w1.trace)
    /\ pc' = "loop"
    /\ picked' = None
    /\ nresets' = nresets + 1
    /\ chosen' = { p \in chosen : p[1] # (top + term.h - 1) % term.h }
    /\ wasResolved' = \A p \in Points(term) : count(grid[p]) = 1
    /\ UNCHANGED <<ret, reported>>

\* The operations in any order
NextAny == CollapseMaybe \/ ResetRow \/ ResetRowMid

SpecAny == Init /\ [][NextAny]_vars

(***************************************************************************)
(* Vocabulary of the properties                                            *)
(***************************************************************************)
opposite(d) == CASE d = 0 -> 1 [] d = 1 -> 0 [] d = 2 -> 3 [] d = 3 -> 2

\* The toroidal neighbour of p in direction d (0 up, 1 down, 2 right, 3 left)
adjacent(p, d) ==
    LET dy == CASE d = 0 -> -1 [] d = 1 -> 1 [] OTHER -> 0
        dx == CASE d = 2 -> 1 [] d = 3 -> -1 [] OTHER -> 0
    IN  <<(p[1] + dy) % term.h, (p[2] + dx) % term.w>>

\* The direction tables are mutual converses
Converse(bs) ==
    \A a \in DOMAIN bs, b \in DOMAIN bs, d \in Dirs :
        (b \in bs[a][d]) <=> (a \in bs[b][opposite(d)])

AllResolved == \A p \in Points(term) : count(grid[p]) = 1

SomeEmpty == \E p \in Points(term) : grid[p] = {}

\* Every cell's tiles are allowed by every tile of each neighbour
Compatible ==
    \A p \in Points(term), d \in Dirs :
        \A a \in grid[p], b \in grid[adjacent(p, d)] : b \in basestates[a][d]

\* The outcome of the last step, in the words of the specification
Outcome ==
    IF ret THEN "Collapsed" ELSE IF picked = None THEN "Done" ELSE "Contradiction"

\* The last operation emptied a cell
Emptied == \E i \in 1..Len(trace) : trace[i].new = {}

(***************************************************************************)
(* C1: with mutually converse tables, a driving loop that ends with every  *)
(* cell at cardinality 1 leaves every cell compatible with each of its     *)
(* four toroidal neighbours, for any grid size.                            *)
(***************************************************************************)
C1_AdjacentCompatible ==
    (pc = "ended" /\ nresets = 0 /\ Converse(basestates) /\ AllResolved) => Compatible

(***************************************************************************)
(* C2: a step whose propagation empties a cell reports Contradiction (not  *)
(* Collapsed, not Done); so while no step has reported Contradiction,      *)
(* every cell has cardinality >= 1.                                        *)
(***************************************************************************)
C2_ContradictionReported ==
    /\ (picked # None /\ Emptied) => Outcome = "Contradiction"
    /\ (~ reported) => \A p \in Points(term) : count(grid[p]) >= 1

(***************************************************************************)
(* C3: after every top-level operation each coordinate is in exactly one   *)
(* bucket of groups, the one indexed by the cell's cardinality.            *)
(***************************************************************************)
C3_BucketConsistency ==
    pc # "panic" =>
        \A p \in Points(term), k \in DOMAIN groups :
            (p \in groups[k]) <=> (k = count(grid[p]))

(***************************************************************************)
(* C4: after the propagation of a collapse has returned, every edge is     *)
(* arc consistent: each tile of A has a compatible tile in the neighbour B *)
(* in direction d, and each tile of B has one in A by the opposite table.  *)
(***************************************************************************)
C4_ArcConsistent ==
    (picked # None /\ pc # "panic") =>
        \A A \in Points(term), d \in Dirs :
            LET B == adjacent(A, d) IN
            /\ \A a \in grid[A] : \E b \in grid[B] : b \in basestates[a][d]
            /\ \A b \in grid[B] : \E a \in grid[A] : a \in basestates[b][opposite(d)]

\* C4 as amended: in a run without resetrow, for every cell A that is not
\* empty and no longer holds the whole tile set, every tile of a neighbour B
\* of cardinality >= 2 in direction d is in projections[a][d] of some tile a of A.
C4_ProjectedSupport ==
    (picked # None /\ pc # "panic" /\ nresets = 0) =>
        \A A \in Points(term), d \in Dirs :
            LET B == adjacent(A, d) IN
            (grid[A] # {} /\ grid[A] # DOMAIN basestates /\ count(grid[B]) >= 2)
                => \A b \in grid[B] : \E a \in grid[A] : b \in basestates[a][d]

C4_Witness ==
    /\ picked # None /\ pc # "panic" /\ nresets = 0
    /\ \E A \in Points(term), d \in Dirs :
          /\ count(grid[A]) >= 2 /\ grid[A] # DOMAIN basestates
          /\ count(grid[adjacent(A, d)]) >= 2
          /\ grid[adjacent(A, d)] # DOMAIN basestates

(***************************************************************************)
(* C5: from a fresh grid the driving loop ends, and it makes at most N*K   *)
(* updates of candidate sets (N cells, K tiles).                           *)
(***************************************************************************)
C5_Termination ==
    /\ (pc = "loop") ~> (pc = "ended")
    /\ [](nresets = 0 =>
            nred <= Cardinality(Points(term)) * numStates(basestates))

\* A finished run in which some cell was narrowed more than once
C5_Witness ==
    /\ pc = "ended" /\ nresets = 0
    /\ nred > Cardinality(Points(term))
    /\ numStates(basestates) >= 3

(***************************************************************************)
(* C6: when collapseMaybe returns false because no cell was found (Done),  *)
(* every cell has cardinality exactly 1.                                   *)
(***************************************************************************)
C6_DoneResolved ==
    (pc = "ended" /\ Outcome = "Done") => AllResolved

(***************************************************************************)
(* C7: once a cell is empty, no later step of the driving loop changes a   *)
(* candidate set.                                                          *)
(***************************************************************************)
C7_ContradictionFatal ==
    [][(SomeEmpty /\ nresets' = nresets) => grid' = grid]_vars

(***************************************************************************)
(* C8: in a run without resetrow no candidate set gains a tile, from step  *)
(* to step and in every update made within a propagation.                  *)
(***************************************************************************)
C8_Monotone ==
    [][nresets' = nresets =>
          /\ \A p \in Points(term) : grid'[p] \subseteq grid[p]
          /\ \A i \in 1..Len(trace') :
                /\ trace'[i].new \subseteq trace'[i].old
                /\ count(trace'[i].new) < count(trace'[i].old)]_vars

C8_Witness ==
    /\ nresets = 0
    /\ \E i \in 1..Len(trace) : trace[i].dir >= 0 /\ count(trace[i].new) >= 2

(***************************************************************************)
(* C9: getLowestEntropy returns a cell of the least cardinality among the  *)
(* cells of cardinality >= 2, and None exactly when there is no such cell. *)
(***************************************************************************)
C9_LowestEntropy ==
    [][pc = "loop" =>
          LET cands == { p \in Points(term) : count(grid[p]) >= 2 } IN
          /\ (picked' = None) <=> (cands = {})
          /\ picked' # None =>
                /\ picked'[1] \in cands
                /\ \A q \in cands : count(grid[picked'[1]]) <= count(grid[q])]_vars

C9_Witness ==
    /\ picked # None /\ Len(trace) >= 1
    /\ count(trace[1].old) = 2
    /\ \E q \in Points(term) : count(grid[q]) >= 3

(***************************************************************************)
(* C10: projectState(p) called again right after the propagation from p    *)
(* has returned changes no candidate set, no bucket and no row counter.    *)
(***************************************************************************)
C10_Idempotent ==
    (picked # None /\ pc # "panic") =>
        LET again == projectState(Self, picked[1]) IN
        /\ again.grid = grid
        /\ again.groups = groups
        /\ again.rowcount = rowcount
        /\ again.trace = << >>

C10_Witness ==
    /\ picked # None /\ pc # "panic"
    /\ \E i \in 1..Len(trace) : trace[i].dir >= 0 /\ trace[i].new = {}
    /\ \E i \in 1..Len(trace) : trace[i].dir >= 0 /\ count(trace[i].new) >= 2

(***************************************************************************)
(* C11: when a cell is collapsed to a tile whose table in direction d does *)
(* not contain the tile of its already resolved neighbour in direction d,  *)
(* the step reports Contradiction, found at that neighbour.                *)
(***************************************************************************)
C11_ResolvedNeighbourContradiction ==
    [][(pc = "loop" /\ picked' # None /\ pc' # "panic") =>
          \A d \in Dirs :
              LET n == adjacent(picked'[1], d) IN
              (/\ count(grid[n]) = 1
               /\ \E a \in grid'[picked'[1]] : ~ (grid[n] \subseteq basestates[a][d]))
                  => (Outcome' = "Contradiction" /\ grid'[n] = {})]_vars

(***************************************************************************)
(* C12: immediately after resetrow returns on a fully resolved grid, every *)
(* cell of the recycled row holds the whole tile set and its coordinate is *)
(* in the top bucket groups[tile count].                                   *)
(***************************************************************************)
C12_RecycledRowSuperposed ==
    [][(nresets' # nresets /\ AllResolved) =>
          \A x \in 0..(term.w - 1) :
              /\ grid'[<<top', x>>] = DOMAIN basestates
              /\ <<top', x>> \in groups'[numStates(basestates)]]_vars

\* C12 as amended, for at least 2 rows and 2 tiles: every cell of the recycled
\* row that is still of cardinality >= 2 holds only tiles that the tile below
\* it (row top+1 mod h) permits upwards, every coordinate of the row is in the
\* bucket of its cardinality, and the row is in full superposition exactly
\* when every tile of the row below permits every tile upwards.
C12_RecycledRowProjected ==
    [][(nresets' # nresets /\ AllResolved
        /\ term.h >= 2 /\ numStates(basestates) >= 2) =>
          LET below(x) == <<(top' + 1) % term.h, x>>
              permitted(x) == UNION { basestates[t][0] : t \in grid[below(x)] }
          IN
          /\ \A x \in 0..(term.w - 1) :
                /\ count(grid'[<<top', x>>]) >= 2
                      => grid'[<<top', x>>] \subseteq permitted(x)
                /\ <<top', x>> \in groups'[count(grid'[<<top', x>>])]
          /\ (\A x \in 0..(term.w - 1) :
                 /\ grid'[<<top', x>>] = DOMAIN basestates
                 /\ <<top', x>> \in groups'[numStates(basestates)])
             <=> (\A x \in 0..(term.w - 1) : permitted(x) = DOMAIN basestates)]_vars

\* resetrow has just returned
AfterReset == pc = "loop" /\ picked = None /\ nresets > 0

\* Right after resetrow on a resolved grid a recycled cell is narrowed, not resolved
C12_Witness ==
    /\ AfterReset /\ wasResolved /\ term.h >= 2
    /\ \E x \in 0..(term.w - 1) :
          /\ count(grid[<<top, x>>]) >= 2
          /\ grid[<<top, x>>] # DOMAIN basestates

(***************************************************************************)
(* C13: after a fully resolved grid (of at least 2 rows), resetrow and     *)
(* collapseMaybe until it returns false, every cell of the recycled row    *)
(* has cardinality 1 and is compatible with the cell below it (row top+1   *)
(* mod h, same column): the lower tile is in projections[upper][down], the *)
(* upper tile in projections[lower][up].                                   *)
(***************************************************************************)
C13_RecycledRowConsistent ==
    (pc = "ended" /\ nresets > 0 /\ wasResolved /\ term.h >= 2) =>
        \A x \in 0..(term.w - 1) :
            LET upper == <<top, x>>
                lower == <<(top + 1) % term.h, x>>
            IN  /\ count(grid[upper]) = 1
                /\ \A a \in grid[upper], b \in grid[lower] :
                      b \in basestates[a][1] /\ a \in basestates[b][0]

(***************************************************************************)
(* C14: seam independence.  After resetrow on a fully resolved grid of at  *)
(* least 3 rows, the recycled row, right after resetrow and after each     *)
(* later collapseMaybe with the same choices, does not depend on the tiles *)
(* of the row across the seam (row top-1 mod h): two grids that differ     *)
(* only in that row produce the same recycled row.  Stated for one         *)
(* operation from two states that differ only in the seam row; the         *)
(* operation leaves them equal outside that row and the seam row as it     *)
(* was, so the next operation starts from two such states again.           *)
(***************************************************************************)
\* The grids that differ from the current one only in row seam, resolved there
SeamAlternatives(seam) ==
    { [p \in Points(term) |-> IF p[1] = seam THEN {f[p[2]]} ELSE grid[p]] :
        f \in [0..(term.w - 1) -> DOMAIN basestates] }

\* Two results agree outside row seam, and the second kept row seam of g2
SeamAgree(r1, r2, g2, seam) ==
    /\ \A p \in Points(term) : p[1] # seam => r1.grid[p] = r2.grid[p]
    /\ \A p \in Points(term) : p[1] = seam => r2.grid[p] = g2[p]
    /\ r1.groups = r2.groups

C14_SeamIndependent ==
    /\ (pc = "ended" /\ AllResolved /\ term.h >= 3) =>
          LET seam == (top + 2 * term.h - 2) % term.h IN
          \A g2 \in SeamAlternatives(seam) :
              SeamAgree(resetrow(Self), resetrow([Self EXCEPT !.grid = g2]), g2, seam)
    /\ (pc = "loop" /\ nresets > 0 /\ wasResolved /\ term.h >= 3) =>
          LET seam == (top + term.h - 1) % term.h IN
          \A g2 \in SeamAlternatives(seam) :
              \A k \in lowestBucket(groups) : \A p \in groups[k] : \A i \in grid[p] :
                  LET w0 == [Self EXCEPT !.groups = reserve(@, k, p)] IN
                  SeamAgree(collapseAt(w0, p, i),
                            collapseAt([w0 EXCEPT !.grid = g2], p, i), g2, seam)

\* After resetrow a recycled cell holds a tile that the seam row's tile above
\* it does not permit below itself
C14_Witness ==
    /\ pc = "loop" /\ nresets > 0 /\ wasResolved /\ term.h >= 3
    /\ \E x \in 0..(term.w - 1) :
          /\ count(grid[<<top, x>>]) >= 2
          /\ ~ (grid[<<top, x>>] \subseteq
                  UNION { basestates[t][1] : t \in grid[<<(top + term.h - 1) % term.h, x>>] })

(***************************************************************************)
(* C15: a "cell resolved" event (an increment of rowcount) is produced     *)
(* exactly once per transition of a cell to cardinality 1, by collapseAt   *)
(* or by propagation, and again for a resolution after a reset: for tile   *)
(* sets of at least 2 tiles, after every top-level operation rowcount[y]   *)
(* is the number of cells of row y whose cardinality is 1.                 *)
(***************************************************************************)
\* The updates of a trace that brought a cell of row y to cardinality 1
Resolutions(tr, y) ==
    { i \in 1..Len(tr) : tr[i].cell[1] = y /\ count(tr[i].new) = 1 }

C15_RowCount ==
    /\ [](numStates(basestates) >= 2 =>
            \A y \in 0..(term.h - 1) :
                rowcount[y] = Cardinality({ p \in Points(term) :
                                              p[1] = y /\ count(grid[p]) = 1 }))
    /\ [][\A y \in 0..(term.h - 1) :
            /\ rowcount'[y] = Cardinality(Resolutions(trace', y))
                   + (IF nresets' # nresets /\ y = top' THEN 0 ELSE rowcount[y])
            /\ \A i, j \in Resolutions(trace', y) :
                   trace'[i].cell = trace'[j].cell => i = j]_vars

\* After a resetrow, a cell of the recycled row was resolved again by
\* propagation and another one by a collapse
C15_Witness ==
    /\ nresets > 0 /\ numStates(basestates) >= 2
    /\ rowcount[top] >= 2
    /\ \E i \in 1..Len(trace) :
          trace[i].cell[1] = top /\ trace[i].dir >= 0 /\ count(trace[i].new) = 1

(***************************************************************************)
(* C16: for any tile set, also one whose tables are not mutual converses,  *)
(* when a run ends with every cell at cardinality 1, every adjacent pair   *)
(* (A holding a, its neighbour B in direction d holding b) has b in        *)
(* projections[a][d] and a in projections[b][opposite d].                  *)
(***************************************************************************)
C16_SymmetricEnforcement ==
    (pc = "ended" /\ nresets = 0 /\ AllResolved) =>
        \A A \in Points(term), d \in Dirs :
            \A a \in grid[A], b \in grid[adjacent(A, d)] :
                /\ b \in basestates[a][d]
                /\ a \in basestates[b][opposite(d)]

(***************************************************************************)
(* C17: getLowestEntropy moves the coordinate it returns from its bucket   *)
(* into bucket 1 before the collapse, so within a generation run no        *)
(* coordinate is returned twice unless resetrow has reset the cell in      *)
(* between.                                                                *)
(***************************************************************************)
C17_Reservation ==
    [][(pc = "loop" /\ picked' # None) =>
          /\ picked'[1] \notin chosen
          /\ picked'[1] \in groups'[1]
          /\ \A k \in DOMAIN groups : k >= 2 => picked'[1] \notin groups'[k]]_vars

\* A cell of the recycled row is returned after a resetrow, and three
\* coordinates are reserved
C17_Witness ==
    /\ picked # None /\ nresets > 0
    /\ picked[1][1] = top
    /\ Cardinality(chosen) >= 3

(***************************************************************************)
(* C18: on a grid whose tile set has exactly one tile, permitting only     *)
(* itself in all four directions, the first step performs a collapse       *)
(* (reports Collapsed, emits a resolved event) whose propagation leaves    *)
(* every cell at cardinality 1 with no contradiction.                      *)
(***************************************************************************)
\* The tile set has one tile, which permits only itself
SingleTile ==
    /\ numStates(basestates) = 1
    /\ \A t \in DOMAIN basestates, d \in Dirs : basestates[t][d] = {t}

C18_SingleTileCollapse ==
    [][(SingleTile /\ pc = "loop" /\ nred = 0 /\ nresets = 0) =>
          /\ Outcome' = "Collapsed"
          /\ \E y \in 0..(term.h - 1) : rowcount'[y] > rowcount[y]
          /\ \A p \in Points(term) : count(grid'[p]) = 1]_vars

\* C18 as amended: with a single tile every cell is at cardinality 1 from
\* construction on; the first step (and every step after a resetrow) finds
\* no cell to collapse and returns false (Done); no candidate set is ever
\* updated, no cell is emptied and no resolved event is counted.
C18_SingleTileDone ==
    /\ [](SingleTile =>
            /\ \A p \in Points(term) : grid[p] = DOMAIN basestates /\ count(grid[p]) = 1
            /\ \A y \in 0..(term.h - 1) : rowcount[y] = 0
            /\ nred = 0 /\ pc # "panic")
    /\ [][(SingleTile /\ pc = "loop") =>
            (Outcome' = "Done" /\ pc' = "ended" /\ grid' = grid)]_vars

\* The first step of a single-tile grid of several cells has returned
C18_Witness ==
    /\ SingleTile /\ pc = "ended" /\ nresets = 0
    /\ Cardinality(Points(term)) >= 4

(***************************************************************************)
(* C19: on a grid of one row and W >= 2 columns with a tile set in which   *)
(* every tile permits only itself to its right and left (and vertically),  *)
(* after the driving loop has finished all cells are resolved to the same  *)
(* tile, whichever cell and tile were picked.                              *)
(***************************************************************************)
\* Every tile permits only itself in every direction
SelfOnly == \A t \in DOMAIN basestates, d \in Dirs : basestates[t][d] = {t}

C19_SameTileRow ==
    (pc = "ended" /\ term.h = 1 /\ term.w >= 2 /\ SelfOnly) =>
        \E t \in DOMAIN basestates : \A p \in Points(term) : grid[p] = {t}

\* A row of three cells has ended on tile 1 after the last cell was picked
C19_Witness ==
    /\ pc = "ended" /\ term.h = 1 /\ term.w >= 3 /\ SelfOnly
    /\ numStates(basestates) >= 2
    /\ grid[<<0, 0>>] = {1}
    /\ chosen = {<<0, term.w - 1>>}

(***************************************************************************)
(* C20: one propagation edge.  projectdir applied to the neighbour n of    *)
(* cell op in direction dir, when n has cardinality >= 2, replaces n's     *)
(* candidate set by its intersection with the union of projections[t][dir] *)
(* over the tiles t of op's candidate set, and recurses from n only if     *)
(* that strictly shrank n; projectState visits (y-1, x) with dir 0,        *)
(* (y+1, x) with dir 1, (y, x+1) with dir 2 and (y, x-1) with dir 3, all   *)
(* modulo the grid size.                                                   *)
(***************************************************************************)
\* The candidate set of cell c just before update i of trace tr, given the
\* grid g after the operation
SetAt(tr, g, c, i) ==
    LET before == { j \in 1..(i - 1) : tr[j].cell = c }
        after  == { j \in i..Len(tr) : tr[j].cell = c }
    IN  IF before # {} THEN tr[CHOOSE j \in before : \A k \in before : k <= j].new
        ELSE IF after # {} THEN tr[CHOOSE j \in after : \A k \in after : j <= k].old
        ELSE g[c]

C20_PropagationEdge ==
    [][/\ \A i \in 1..Len(trace') :
             LET e == trace'[i] IN
             e.dir >= 0 =>
                /\ e.cell = adjacent(e.op, e.dir)
                /\ count(e.old) >= 2
                /\ e.new = e.old \cap UNION { basestates[t][e.dir] :
                                               t \in SetAt(trace', grid', e.op, i) }
                /\ e.new # e.old
                /\ \/ \E j \in 1..(i - 1) :
                          trace'[j].cell = e.op /\ trace'[j].new # trace'[j].old
                   \/ nresets' # nresets /\ e.dir = 0 /\ e.op[1] = (top' + 1) % term.h
       /\ (pc = "loop" /\ picked' # None /\ pc' # "panic") =>
             LET p == picked'[1] IN
             /\ LET n == adjacent(p, 0)
                    h == grid[n] \cap UNION { basestates[t][0] : t \in grid'[p] }
                IN  (n # p /\ count(grid[n]) >= 2 /\ h # grid[n]) =>
                       /\ Len(trace') >= 2
                       /\ trace'[2] = [cell |-> n, old |-> grid[n], new |-> h,
                                       op |-> p, dir |-> 0]
             /\ \A d \in Dirs :
                   count(grid'[adjacent(p, d)]) >= 2 =>
                      grid'[adjacent(p, d)] \subseteq
                          UNION { basestates[t][d] : t \in grid'[p] }]_vars

\* A propagation narrowed a cell to two or more tiles and went on from it
\* sideways
C20_Witness ==
    \E i, j \in 1..Len(trace) :
        /\ i < j
        /\ trace[i].dir >= 0 /\ count(trace[i].new) >= 2
        /\ trace[j].op = trace[i].cell /\ trace[j].dir >= 2
        /\ count(trace[j].new) >= 1

(***************************************************************************)
(* C21: when propagation reduces a cell to cardinality 0, no propagation   *)
(* is started from that cell: no cell is reduced on account of the empty   *)
(* cell's projection, and the empty cell is not changed again until a      *)
(* resetrow resets it.                                                     *)
(***************************************************************************)
C21_NoPropagationFromEmpty ==
    [][/\ \A i \in 1..Len(trace') :
             trace'[i].dir >= 0 => SetAt(trace', grid', trace'[i].op, i) # {}
       /\ \A p \in Points(term) :
             (grid[p] = {} /\ nresets' = nresets) => grid'[p] = {}]_vars

(***************************************************************************)
(* C22: order of recycling.  resetrow resets the row that is marked top at *)
(* the moment of the call and only then advances top to the next row; the  *)
(* re-propagation is seeded, column by column, from the resolved row       *)
(* adjacent to the reset row.                                              *)
(***************************************************************************)
\* The updates of a trace that were seeded from outside row r
Seeds(tr, r) == { i \in 1..Len(tr) : tr[i].op[1] # r }

C22_RecycleOrder ==
    [][(nresets' # nresets /\ term.h >= 2) =>
          /\ \A p \in Points(term) : p[1] # top => grid'[p] = grid[p]
          /\ top' \in {(top + 1) % term.h, (top + term.h - 1) % term.h}
          /\ \A i \in Seeds(trace', top) :
                trace'[i].op[1] \in {(top + 1) % term.h, (top + term.h - 1) % term.h}]_vars

\* C22 as amended: resetrow first moves top to the row before it
\* (top-1 mod h), then resets that row to the whole tile set; the row stays
\* marked top; the re-propagation is then seeded, column by column from
\* column 0 on, from the row below it (top+1 mod h) in direction 0, and every
\* other update goes from cell to cell within the reset row.
C22_RecycleOrderCode ==
    [][(nresets' # nresets /\ term.h >= 2) =>
          /\ top' = (top + term.h - 1) % term.h
          /\ \A p \in Points(term) : p[1] # top' => grid'[p] = grid[p]
          /\ \A x \in 0..(term.w - 1) :
                LET upd == { i \in 1..Len(trace') : trace'[i].cell = <<top', x>> } IN
                IF upd = {} THEN grid'[<<top', x>>] = DOMAIN basestates
                ELSE trace'[CHOOSE i \in upd : \A j \in upd : i <= j].old = DOMAIN basestates
          /\ \A i \in Seeds(trace', top') :
                /\ trace'[i].op[1] = (top' + 1) % term.h
                /\ trace'[i].dir = 0
                /\ trace'[i].cell = <<top', trace'[i].op[2]>>
                /\ \A j \in Seeds(trace', top') :
                      i < j => trace'[i].op[2] < trace'[j].op[2]
          /\ Len(trace') >= 1 => 1 \in Seeds(trace', top')]_vars

\* resetrow has seeded two columns and propagated along the reset row
C22_Witness ==
    /\ AfterReset /\ term.h >= 2
    /\ Cardinality(Seeds(trace, top)) >= 2
    /\ \E i \in 1..Len(trace) : trace[i].op[1] = top /\ trace[i].dir >= 2

(***************************************************************************)
(* C23: frame of recycling.  When resetrow is called on a grid in which no *)
(* cell has cardinality >= 2, resetrow and every following collapseMaybe   *)
(* up to completion change only cells of the recycled row; the candidate   *)
(* set of every cell of every other row is left unchanged.                 *)
(***************************************************************************)
C23_RecycleFrame ==
    [][nresets' > 0 =>
          \A p \in Points(term) : p[1] # top' => grid'[p] = grid[p]]_vars

\* After a resetrow on three rows, a cell of the recycled row was collapsed
\* next to resolved rows and the loop has ended
C23_Witness ==
    /\ pc = "ended" /\ nresets > 0 /\ term.h >= 3
    /\ \E p \in chosen : p[1] = top
    /\ \A p \in Points(term) : p[1] # top => count(grid[p]) = 1

(***************************************************************************)
(* C24: stable resolution.  Once a cell's candidate set is a singleton     *)
(* {t}, no collapseMaybe and no propagation changes it; the cell holds {t} *)
(* until a resetrow on its row resets it, also when a neighbour later      *)
(* resolves to a tile incompatible with t.                                 *)
(***************************************************************************)
C24_StableResolution ==
    [][/\ \A p \in Points(term) :
             (count(grid[p]) = 1 /\ ~ (nresets' # nresets /\ p[1] = top'))
                 => grid'[p] = grid[p]
       /\ \A i \in 1..Len(trace') : count(trace'[i].old) # 1]_vars

\* A cell was collapsed to a tile that does not permit the tile of a
\* neighbour resolved before, and the neighbour kept its tile
C24_Witness ==
    /\ picked # None /\ pc # "panic"
    /\ \E d \in Dirs :
          LET n == adjacent(picked[1], d) IN
          /\ n # picked[1]
          /\ count(grid[n]) = 1
          /\ \A i \in 1..Len(trace) : trace[i].cell # n
          /\ \E a \in grid[picked[1]] : ~ (grid[n] \subseteq basestates[a][d])

(***************************************************************************)
(* C25: in every run that starts from new, calls collapseMaybe repeatedly  *)
(* and calls resetrow only when no cell has cardinality >= 2, every cell   *)
(* handed to collapseAt has cardinality >= 2: the assertion                *)
(* assert!(is_superpositioned(p)) never fails.                             *)
(***************************************************************************)
C25_CollapsePrecondition ==
    /\ [](pc # "panic")
    /\ [][(pc = "loop" /\ picked' # None) => count(grid[picked'[1]]) >= 2]_vars

\* A cell is handed to collapseAt after a resetrow that left a coordinate
\* in two buckets
C25_Witness ==
    /\ picked # None /\ nresets > 0
    /\ \E p \in Points(term) : \E k1, k2 \in DOMAIN groups :
          k1 # k2 /\ p \in groups[k1] /\ p \in groups[k2]

(***************************************************************************)
(* C26: resetrow may be called between any two collapseMaybe calls, also   *)
(* while cells of the row to be reset still have cardinality >= 2;         *)
(* afterwards every cell handed to collapseAt still has cardinality >= 2   *)
(* (the assertion of collapseAt never fails) and no coordinate sits in two *)
(* buckets of index >= 2.                                                  *)
(***************************************************************************)
C26_MidGenerationReset ==
    /\ pc # "panic"
    /\ \A p \in Points(term) : \A k1, k2 \in DOMAIN groups :
          (k1 >= 2 /\ k2 >= 2 /\ p \in groups[k1] /\ p \in groups[k2]) => k1 = k2

(***************************************************************************)
(* C27: in a run without resetrow, after every collapseMaybe call, for     *)
(* every cell A of cardinality 1 holding tile a and every neighbour B of A *)
(* in direction d that still has cardinality >= 2, B's candidate set is a  *)
(* subset of projections[a][d].                                            *)
(***************************************************************************)
C27_ForwardChecking ==
    (pc # "panic" /\ nresets = 0) =>
        \A A \in Points(term), d \in Dirs, a \in DOMAIN basestates :
            LET B == adjacent(A, d) IN
            (grid[A] = {a} /\ count(grid[B]) >= 2) => grid[B] \subseteq basestates[a][d]

\* A resolved cell next to an open cell that its tile has narrowed
C27_Witness ==
    /\ picked # None /\ pc # "panic" /\ nresets = 0
    /\ \E A \in Points(term), d \in Dirs :
          /\ count(grid[A]) = 1
          /\ count(grid[adjacent(A, d)]) >= 2
          /\ grid[adjacent(A, d)] # DOMAIN basestates
          /\ \E i \in 1..Len(trace) :
                /\ trace[i].cell = adjacent(A, d)
                /\ trace[i].op = A
                /\ trace[i].dir = d

\* The program runs its driving loop without interruption: weak fairness of
\* CollapseMaybe.  WF_vars(CollapseMaybe) is, by definition,
\* []<>(~ ENABLED <<CollapseMaybe>>_vars) \/ []<><<CollapseMaybe>>_vars, and
\* CollapseMaybe is enabled, and changes pc, picked or groups, exactly when
\* pc = "loop"; the fairness condition is written in that form.
Fairness == ([]<>(pc # "loop")) \/ ([]<><<CollapseMaybe>>_vars)

FairSpec == Spec /\ Fairness

====
